---- MODULE Spec2Model ----
(***************************************************************************)
(* Model of the oracle MCP server's tool layer (main.py): the lifespan     *)
(* that owns the DatabaseContext, and the tools that read the schema       *)
(* snapshot, rebuild it and run live queries.  The DatabaseContext itself  *)
(* (package db_context) is modelled from its specified contract.           *)
(***************************************************************************)
EXTENDS Integers, Sequences, FiniteSets, TLC

(***************************************************************************)
(* Bounds of the model.                                                    *)
(***************************************************************************)
\* Longest table name; the catalog holds every name over {A,B} up to it.
NameLen == 4
\* Tool invocations of one run of the server; they may all be in flight at once.
NHandlers == 2
\* Snapshot generations (initialize builds generation 1).
MaxGen == 3
\* Versions of the live database schema.
MaxDbVersion == 2
\* Hash seeds of the interpreter (PYTHONHASHSEED), 0..MaxSeed.
MaxSeed == 1

(***************************************************************************)
(* Program constants.                                                      *)
(***************************************************************************)
\* search_tables(term, limit=20) and matching_tables[:20]
TableLimit == 20

Handlers == 1..NHandlers

(***************************************************************************)
(* Strings are sequences of one-character strings.                         *)
(***************************************************************************)
Upper(c) ==
    CASE c = "a" -> "A"
      [] c = "b" -> "B"
      [] OTHER -> c

UpperStr(s) == [i \in DOMAIN s |-> Upper(s[i])]

\* Python's `term in name`: term occurs as a contiguous substring of name.
Contains(name, term) ==
    \E i \in 0..(Len(name) - Len(term)) :
        SubSeq(name, i + 1, i + Len(term)) = term

Take(s, n) == SubSeq(s, 1, IF Len(s) < n THEN Len(s) ELSE n)

Range(s) == {s[i] : i \in DOMAIN s}

RECURSIVE Pow2(_)
Pow2(n) == IF n = 0 THEN 1 ELSE 2 * Pow2(n - 1)

(***************************************************************************)
(* The live database's catalog: table names in extraction order.           *)
(***************************************************************************)
\* The k-th name (k >= 0) of length n over {A,B}, in lexicographic order.
NameOf(n, k) ==
    [i \in 1..n |-> IF (k \div Pow2(n - i)) % 2 = 0 THEN "A" ELSE "B"]

RECURSIVE NamesUpTo(_)
NamesUpTo(n) ==
    IF n = 0 THEN << >>
    ELSE NamesUpTo(n - 1) \o [k \in 1..Pow2(n) |-> NameOf(n, k - 1)]

AllNames == NamesUpTo(NameLen)

\* Odd versions hold every table; even versions have dropped the tables
\* with two-letter names.
Catalogs ==
    [v \in 1..MaxDbVersion |->
        IF v % 2 = 1 THEN AllNames
        ELSE SelectSeq(AllNames, LAMBDA n : Len(n) # 2)]

Catalog(v) == Catalogs[v]

(***************************************************************************)
(* SchemaSnapshot and TableInfo.  A snapshot carries its generation and the *)
(* version of the schema it was extracted from; every field of a TableInfo *)
(* carries the generation of the build that extracted it, 0 being "not     *)
(* extracted yet".                                                         *)
(***************************************************************************)
NoTable == [name |-> << >>, columns |-> 0, constraints |-> 0]

NoSnapshot == [gen |-> 0, db |-> 0, tables |-> << >>]

\* Step 1 of extraction: the table list, no per-table details yet.
ExtractTableList(g, v) ==
    [gen |-> g,
     db |-> v,
     tables |-> [i \in DOMAIN Catalog(v) |->
                    [name |-> Catalog(v)[i], columns |-> 0, constraints |-> 0]]]

\* Step 2: per-table columns.
ExtractColumns(snap) ==
    [snap EXCEPT !.tables =
        [i \in DOMAIN snap.tables |-> [snap.tables[i] EXCEPT !.columns = snap.gen]]]

\* Step 3: per-table constraints and indexes.
ExtractConstraints(snap) ==
    [snap EXCEPT !.tables =
        [i \in DOMAIN snap.tables |-> [snap.tables[i] EXCEPT !.constraints = snap.gen]]]

ExtractAll(g, v) == ExtractConstraints(ExtractColumns(ExtractTableList(g, v)))

TableNames(snap) == [i \in DOMAIN snap.tables |-> snap.tables[i].name]

\* len(cache.all_table_names)
AllTableNames(snap) == Range(TableNames(snap))

\* getSchemaInfo: case-insensitive exact match against the snapshot.
GetSchemaInfo(snap, table_name) ==
    IF \E i \in DOMAIN snap.tables : snap.tables[i].name = UpperStr(table_name)
    THEN snap.tables[CHOOSE i \in DOMAIN snap.tables :
                        snap.tables[i].name = UpperStr(table_name)]
    ELSE NoTable

\* searchTables: case-insensitive substring match, extraction order,
\* truncated to limit.
SearchTables(snap, term, limit) ==
    Take(SelectSeq(TableNames(snap), LAMBDA n : Contains(n, UpperStr(term))), limit)

(***************************************************************************)
(* Pure parts of the tools of main.py.                                     *)
(***************************************************************************)
ReplaceComma(s) == [i \in DOMAIN s |-> IF s[i] = "," THEN " " ELSE s[i]]

\* str.split(): the maximal runs of non-blank characters.
RECURSIVE SplitWords(_, _, _)
SplitWords(s, cur, acc) ==
    IF s = << >> THEN (IF cur = << >> THEN acc ELSE Append(acc, cur))
    ELSE IF Head(s) = " "
         THEN SplitWords(Tail(s), << >>, IF cur = << >> THEN acc ELSE Append(acc, cur))
         ELSE SplitWords(Tail(s), Append(cur, Head(s)), acc)

\* search_term.replace(',', ' ').split(), empty strings removed.
SearchTerms(search_term) == SplitWords(ReplaceComma(search_term), << >>, << >>)

\* A table name as a number: a leading 1, then A = 0 and B = 1.
RECURSIVE NameCode(_)
NameCode(n) ==
    IF n = << >> THEN 1
    ELSE 2 * NameCode(SubSeq(n, 1, Len(n) - 1)) + (IF n[Len(n)] = "B" THEN 1 ELSE 0)

\* The slot of a string in a set's hash table under the interpreter's seed.
StrSlot(n, seed) == (NameCode(n) * (2 * seed + 1) + seed) % 32

SlotBefore(a, b, seed) ==
    \/ StrSlot(a, seed) < StrSlot(b, seed)
    \/ StrSlot(a, seed) = StrSlot(b, seed) /\ NameCode(a) < NameCode(b)

\* A set of names in the order of a sequence that holds them.
InOrder(names, S) == SelectSeq(names, LAMBDA n : n \in S)

RECURSIVE BySlot(_, _)
BySlot(S, seed) ==
    IF S = {} THEN << >>
    ELSE LET first == CHOOSE a \in S : \A b \in S \ {a} : SlotBefore(a, b, seed)
         IN  <<first>> \o BySlot(S \ {first}, seed)

\* Every name the catalog can hold, in hash-slot order, per seed.
SlotOrders == [seed \in 0..MaxSeed |-> BySlot(Range(AllNames), seed)]

\* list(matching_tables): a set of str iterates in hash-slot order.
SetToList(S, seed) == SelectSeq(SlotOrders[seed], LAMBDA n : n \in S)

\* matching_tables.update(tables)
UpdateMatching(matching, tables) == matching \cup Range(tables)

\* Mutant: the list is not cut to the limit.
MutLimitedTablesUncut(list) == list

\* matching_tables[:20]
LimitedTables(list) == Take(list, TableLimit)

(***************************************************************************)
(* Tool results.  A text result is a record, one tag per message of the    *)
(* code; an exception leaving the tool is kind "raise".                    *)
(***************************************************************************)
NoResult ==
    [kind |-> "none", tag |-> "", name |-> << >>, body |-> << >>, n |-> 0, msg |-> ""]

Text(tag, name, body, n, msg) ==
    [kind |-> "text", tag |-> tag, name |-> name, body |-> body, n |-> n, msg |-> msg]

Raised(msg) ==
    [kind |-> "raise", tag |-> "exception", name |-> << >>, body |-> << >>,
     n |-> 0, msg |-> msg]

Cancelled ==
    [kind |-> "cancelled", tag |-> "", name |-> << >>, body |-> << >>, n |-> 0, msg |-> ""]

\* table_info.format_schema()
FormatSchema(info) ==
    [tag |-> "schema", name |-> info.name, columns |-> info.columns,
     constraints |-> info.constraints]

\* f"Table '{table_name}' not found in the schema."
NotFoundEntry(table_name) ==
    [tag |-> "not_found", name |-> table_name, columns |-> 0, constraints |-> 0]

\* get_table_schema, after the lookup.
TableSchemaText(info, table_name) ==
    IF info = NoTable
    THEN Text("not_found", table_name, <<NotFoundEntry(table_name)>>, 0, "")
    ELSE Text("schema", info.name, <<FormatSchema(info)>>, 0, "")

\* Mutant: an absent table is skipped, as the search tool's loop does.
MutTablesEntriesSkipAbsent(info, table_name) ==
    IF info = NoTable THEN << >> ELSE <<FormatSchema(info)>>

\* get_tables_schema, one turn of the loop: what is appended to results.
TablesEntries(info, table_name) ==
    IF info = NoTable THEN <<NotFoundEntry(table_name)>> ELSE <<FormatSchema(info)>>

\* search_tables_schema, one turn of the loading loop.
SearchEntries(info) ==
    IF info = NoTable THEN << >> ELSE <<FormatSchema(info)>>

\* len(cache.all_table_names) if cache else 0
CacheSize(snap) == IF snap = NoSnapshot THEN 0 ELSE Cardinality(AllTableNames(snap))

\* Mutant: the except branch reports success.
MutRebuildTextAlwaysOk(ok, snap, e) ==
    Text("rebuild_ok", << >>, << >>, CacheSize(snap), "")

\* rebuild_schema_cache, after rebuild_cache() returned (ok) or raised e.
RebuildText(ok, snap, e) ==
    IF ok THEN Text("rebuild_ok", << >>, << >>, CacheSize(snap), "")
    ELSE Text("rebuild_failed", << >>, << >>, 0, e)

\* The header line of search_tables_schema.
SearchHeaderTag(total) == IF total > TableLimit THEN "found_first" ELSE "found"

\* Mutant: the status of the result is not looked at before formatting.
MutQueryTextNoStatusCheck(outcome) ==
    IF outcome.kind = "raise" THEN Text("query_error", << >>, << >>, 0, outcome.msg)
    ELSE LET result == outcome.value
         IN  IF {"columns", "rows", "rowCount"} \subseteq DOMAIN result
             THEN Text("query_table", result.columns, result.rows, result.rowCount, "")
             ELSE Text("query_error", << >>, << >>, 0, "KeyError")

\* execute_query, after db_context.execute_query(query) returned a dict
\* (kind "value") or raised (kind "raise").  A missing key of an ok result
\* raises KeyError inside the try block.
QueryText(outcome) ==
    IF outcome.kind = "raise" THEN Text("query_error", << >>, << >>, 0, outcome.msg)
    ELSE LET result == outcome.value
         IN  IF "status" \in DOMAIN result /\ result.status = "error"
             THEN Text("query_error", << >>, << >>, 0,
                       IF "error" \in DOMAIN result THEN result.error
                       ELSE "Unknown error")
             ELSE IF {"columns", "rows", "rowCount"} \subseteq DOMAIN result
                  THEN Text("query_table", result.columns, result.rows,
                            result.rowCount, "")
                  ELSE Text("query_error", << >>, << >>, 0, "KeyError")

\* The nine tools whose whole body is try/except Exception: a value is
\* formatted, an empty result is a "none found" message, and an exception of
\* the call or of the formatting is an error message.
GuardedText(t, o) ==
    CASE o = "value" -> Text("found", << >>, << >>, 0, t)
      [] o = "empty" -> Text("none_found", << >>, << >>, 0, t)
      [] OTHER       -> Text("error", << >>, << >>, 0, t)

\* Mutant: no finally block, a failed initialize() leaves the lifespan at once.
MutAfterInitNoFinally(ok) == IF ok THEN "serving" ELSE "exited"

\* Mutant: the failure of initialize() is swallowed and the body is served.
MutAfterInitServeAnyway(ok) == "serving"

\* app_lifespan, after `await db_context.initialize()`: the body is served
\* when it returned; the finally block runs when it raised.
LifespanAfterInit(ok) == IF ok THEN "serving" ELSE "closing"

\* app_lifespan, when the serving body ends, normally or with an exception
\* thrown in at the yield: the finally block runs.
LifespanAfterServe(failed) == "closing"

(***************************************************************************)
(* Inputs.                                                                 *)
(***************************************************************************)
\* search_term arguments: "a"; "AB, bbbb"; "AB a"; ", "; "aaaaaa"
SearchInputs ==
    { <<"a">>,
      <<"A", "B", ",", " ", "b", "b", "b", "b">>,
      <<"A", "B", " ", "a">>,
      <<",", " ">>,
      <<"a", "a", "a", "a", "a", "a">> }

\* table_name arguments: "ab" is a table of the odd catalog versions only,
\* "C" is never one.
TableArgs == { <<"a", "b">>, <<"C">> }

\* table_names arguments.
TableLists ==
    { << >>,
      << <<"C">>, <<"a">> >>,
      << <<"a", "b">>, <<"C">>, <<"a", "b">> >> }

\* What the engine answers to execute_query.
QueryOutcomes ==
    { [kind |-> "value", msg |-> "",
       value |-> [status |-> "ok", columns |-> <<"X", "Y">>,
                  rows |-> << <<"1", "NULL">> >>, rowCount |-> 1]],
      [kind |-> "value", msg |-> "",
       value |-> [status |-> "ok", columns |-> << >>, rows |-> << >>, rowCount |-> 0]],
      [kind |-> "value", msg |-> "", value |-> [status |-> "ok"]],
      [kind |-> "value", msg |-> "",
       value |-> [status |-> "error", error |-> "ORA-00900"]],
      [kind |-> "value", msg |-> "",
       value |-> [status |-> "error", error |-> "ORA-00942"]],
      [kind |-> "raise", msg |-> "DPY-1001", value |-> [status |-> "none"]] }

GuardedTools ==
    { "get_database_vendor_info", "search_columns", "get_pl_sql_objects",
      "get_object_source", "get_table_constraints", "get_table_indexes",
      "get_dependent_objects", "get_user_defined_types", "get_related_tables" }

GuardedOutcomes == { "value", "empty", "malformed", "raise" }

(***************************************************************************)
(* The Schema Manager's rebuild discipline.                                *)
(***************************************************************************)
\* Mutant: no guard, every rebuild is admitted.
MutRebuildAlwaysAdmitted(r) == TRUE

\* Mutant: the build fills the live snapshot in place.
MutPublishedInPlace(live, under) == IF under = NoSnapshot THEN live ELSE under

\* The exclusive-rebuild guard: a rebuild is admitted when none is in flight.
RebuildAdmitted(r) == r = 0

\* The snapshot readers hold while a new one is under construction: a build
\* never touches the live snapshot.
Published(live, under) == live

(***************************************************************************)
(* State.                                                                  *)
(***************************************************************************)
VARIABLES
    connStr,    \* ORACLE_CONNECTION_STRING is set
    hashSeed,   \* the interpreter's string hash seed
    life,       \* app_lifespan: "start", "constructed", "serving", "closing", "exited"
    lifeExc,    \* an exception is propagating through the lifespan's finally
    lifeOut,    \* how the lifespan ended: "none", "ok", "raised"
    ctx,        \* the DatabaseContext: what was called on it
    dbVersion,  \* version of the live database schema
    cache,      \* schema_manager.cache: the snapshot readers see
    installed,  \* the generation and source version of every snapshot swapped in
    building,   \* the snapshot under construction
    rebuilder,  \* the handler whose rebuild holds the guard, 0 when none
    gens,       \* builds started so far
    pc,         \* each tool invocation's position
    tool,       \* each invocation's tool
    loc,        \* each invocation's local variables
    ret         \* each invocation's result

vars ==
    <<connStr, hashSeed, life, lifeExc, lifeOut, ctx, dbVersion, cache, installed,
      building, rebuilder, gens, pc, tool, loc, ret>>

LocInit ==
    [arg |-> << >>, terms |-> << >>, i |-> 0, matching |-> {}, returned |-> {},
     list |-> << >>, total |-> 0, results |-> << >>, seen |-> {},
     v0 |-> 0, v1 |-> 0, ok |-> TRUE, outcome |-> "none", builder |-> FALSE]

BuildPcs == {"rebuild_tables", "rebuild_columns", "rebuild_constraints", "rebuild_save"}

InFlightPcs ==
    BuildPcs \cup {"rebuild_install", "rebuild_wait", "rebuild_woken", "tables_loop",
                   "search_terms", "search_load"}

Init ==
    /\ connStr \in BOOLEAN
    /\ hashSeed \in 0..MaxSeed
    /\ life = "start"
    /\ lifeExc = FALSE
    /\ lifeOut = "none"
    /\ ctx = [constructed |-> FALSE, initCalls |-> 0, closeCalls |-> 0,
              served |-> FALSE, afterClose |-> FALSE]
    /\ dbVersion = 1
    /\ cache = NoSnapshot
    /\ installed = {}
    /\ building = NoSnapshot
    /\ rebuilder = 0
    /\ gens = 0
    /\ pc = [h \in Handlers |-> "idle"]
    /\ tool = [h \in Handlers |-> "none"]
    /\ loc = [h \in Handlers |-> LocInit]
    /\ ret = [h \in Handlers |-> NoResult]

\* Every snapshot a complete build can produce.
BuiltSnapshots ==
    [g \in 1..MaxGen |-> [v \in 1..MaxDbVersion |-> ExtractAll(g, v)]]

\* Every snapshot that was ever swapped in.
InstalledSnapshots == {BuiltSnapshots[x.gen][x.db] : x \in installed}

\* A call on the context by a tool.
Called(c) == [c EXCEPT !.served = TRUE, !.afterClose = c.afterClose \/ c.closeCalls > 0]

(***************************************************************************)
(* app_lifespan.                                                           *)
(***************************************************************************)
\* Lines 25-37: the connection string check, the cache directory, the
\* construction of the DatabaseContext.
LifespanEnter ==
    /\ life = "start"
    /\ \E mkdirOk \in BOOLEAN :
        IF connStr /\ mkdirOk
        THEN /\ life' = "constructed"
             /\ ctx' = [ctx EXCEPT !.constructed = TRUE]
             /\ lifeOut' = lifeOut
        ELSE /\ life' = "exited"
             /\ lifeOut' = "raised"
             /\ ctx' = ctx
    /\ UNCHANGED <<connStr, hashSeed, lifeExc, dbVersion, cache, installed, building,
                   rebuilder, gens, pc, tool, loc, ret>>

\* Lines 39-44: initialize() populates the snapshot or fails.
LifespanInitialize ==
    /\ life = "constructed"
    /\ \E ok \in BOOLEAN :
        /\ ctx' = [ctx EXCEPT !.initCalls = @ + 1,
                              !.afterClose = @ \/ ctx.closeCalls > 0]
        /\ life' = LifespanAfterInit(ok)
        /\ lifeExc' = ~ok
        /\ lifeOut' = IF life' = "exited" THEN "raised" ELSE lifeOut
        /\ IF ok
           THEN /\ cache' = ExtractAll(1, dbVersion)
                /\ installed' = installed \cup {[gen |-> 1, db |-> dbVersion]}
                /\ gens' = 1
           ELSE UNCHANGED <<cache, installed, gens>>
    /\ UNCHANGED <<connStr, hashSeed, dbVersion, building, rebuilder, pc, tool, loc, ret>>

\* Line 44: the serving layer leaves the lifespan's body, normally or with an
\* exception; its task group has cancelled the invocations still in flight,
\* and no invocation's frame outlives it.
ServeEnd ==
    /\ life = "serving"
    /\ \E failed \in BOOLEAN :
        /\ life' = LifespanAfterServe(failed)
        /\ lifeExc' = failed
        /\ lifeOut' = IF life' = "exited" THEN (IF failed THEN "raised" ELSE "ok")
                      ELSE lifeOut
    /\ pc' = [h \in Handlers |-> "gone"]
    /\ tool' = [h \in Handlers |-> "none"]
    /\ loc' = [h \in Handlers |-> LocInit]
    /\ ret' = [h \in Handlers |-> IF pc[h] \in InFlightPcs THEN Cancelled ELSE NoResult]
    /\ rebuilder' = 0
    /\ building' = NoSnapshot
    /\ UNCHANGED <<connStr, hashSeed, ctx, dbVersion, cache, installed, gens>>

\* Lines 45-49: the finally block.
LifespanClose ==
    /\ life = "closing"
    /\ \E closeOk \in BOOLEAN :
        /\ ctx' = [ctx EXCEPT !.closeCalls = @ + 1]
        /\ life' = "exited"
        /\ lifeOut' = IF lifeExc \/ ~closeOk THEN "raised" ELSE "ok"
    /\ UNCHANGED <<connStr, hashSeed, lifeExc, dbVersion, cache, installed, building,
                   rebuilder, gens, pc, tool, loc, ret>>

\* The live database's schema changes under the running server.
SchemaChange ==
    /\ life # "exited"
    /\ dbVersion < MaxDbVersion
    /\ dbVersion' = dbVersion + 1
    /\ UNCHANGED <<connStr, hashSeed, life, lifeExc, lifeOut, ctx, cache, installed,
                   building, rebuilder, gens, pc, tool, loc, ret>>

(***************************************************************************)
(* Tool invocations.  The serving layer starts an invocation only while    *)
(* the lifespan's body runs; invocation h + 1 arrives after invocation h.  *)
(***************************************************************************)
CanInvoke(h) ==
    /\ life = "serving"
    /\ pc[h] = "idle"
    /\ IF h = 1 THEN TRUE ELSE pc[h - 1] # "idle"

Finish(h, r) ==
    /\ pc' = [pc EXCEPT ![h] = "done"]
    /\ ret' = [ret EXCEPT ![h] = r]

LifeUnchanged == UNCHANGED <<connStr, hashSeed, life, lifeExc, lifeOut, dbVersion>>

SnapUnchanged == UNCHANGED <<cache, installed, building, rebuilder, gens>>

\* get_table_schema (lines 55-76).
GetTableSchema(h) ==
    /\ CanInvoke(h)
    /\ \E table_name \in TableArgs, raises \in BOOLEAN :
        /\ tool' = [tool EXCEPT ![h] = "get_table_schema"]
        /\ loc' = [loc EXCEPT ![h].arg = table_name,
                              ![h].seen = {cache.gen},
                              ![h].outcome =
                                  IF raises THEN "raise"
                                  ELSE IF GetSchemaInfo(cache, table_name) = NoTable
                                       THEN "none" ELSE "value"]
        /\ Finish(h, IF raises THEN Raised("ORA-03113")
                     ELSE TableSchemaText(GetSchemaInfo(cache, table_name), table_name))
    /\ ctx' = Called(ctx)
    /\ LifeUnchanged
    /\ SnapUnchanged

\* get_tables_schema (lines 95-121): the call arrives.
GetTablesSchemaStart(h) ==
    /\ CanInvoke(h)
    /\ \E table_names \in TableLists :
        /\ tool' = [tool EXCEPT ![h] = "get_tables_schema"]
        /\ loc' = [loc EXCEPT ![h].arg = table_names, ![h].i = 1]
        /\ IF table_names = << >>
           THEN Finish(h, Text("tables", << >>, << >>, 0, ""))
           ELSE /\ pc' = [pc EXCEPT ![h] = "tables_loop"]
                /\ ret' = ret
    /\ UNCHANGED ctx
    /\ LifeUnchanged
    /\ SnapUnchanged

\* get_tables_schema: one turn of the loop, and the join after the last.
GetTablesSchemaStep(h) ==
    /\ life = "serving"
    /\ pc[h] = "tables_loop"
    /\ \E raises \in BOOLEAN :
        LET table_name == loc[h].arg[loc[h].i]
            table_info == GetSchemaInfo(cache, table_name)
            results    == loc[h].results \o TablesEntries(table_info, table_name)
        IN  IF raises
            THEN /\ loc' = [loc EXCEPT ![h].outcome = "raise"]
                 /\ Finish(h, Raised("ORA-03113"))
            ELSE /\ loc' = [loc EXCEPT ![h].results = results,
                                       ![h].i = @ + 1,
                                       ![h].seen = @ \cup {cache.gen},
                                       ![h].outcome =
                                           IF table_info = NoTable THEN "none" ELSE "value"]
                 /\ IF loc[h].i = Len(loc[h].arg)
                    THEN Finish(h, Text("tables", << >>, results, 0, ""))
                    ELSE UNCHANGED <<pc, ret>>
    /\ ctx' = Called(ctx)
    /\ UNCHANGED tool
    /\ LifeUnchanged
    /\ SnapUnchanged

\* search_tables_schema (lines 123-148): the call arrives, the terms are split.
SearchStart(h) ==
    /\ CanInvoke(h)
    /\ \E search_term \in SearchInputs :
        /\ tool' = [tool EXCEPT ![h] = "search_tables_schema"]
        /\ loc' = [loc EXCEPT ![h].arg = search_term,
                              ![h].terms = SearchTerms(search_term),
                              ![h].i = 1]
        /\ IF SearchTerms(search_term) = << >>
           THEN Finish(h, Text("no_terms", << >>, << >>, 0, ""))
           ELSE /\ pc' = [pc EXCEPT ![h] = "search_terms"]
                /\ ret' = ret
    /\ UNCHANGED ctx
    /\ LifeUnchanged
    /\ SnapUnchanged

\* search_tables_schema (lines 153-171): one search_tables call; after the
\* last term the set becomes a list, is counted and cut to the limit.
SearchTermStep(h) ==
    /\ life = "serving"
    /\ pc[h] = "search_terms"
    /\ \E raises \in BOOLEAN :
        LET tables   == SearchTables(cache, loc[h].terms[loc[h].i], TableLimit)
            matching == UpdateMatching(loc[h].matching, tables)
            list     == SetToList(matching, hashSeed)
        IN  IF raises
            THEN /\ loc' = [loc EXCEPT ![h].outcome = "raise"]
                 /\ Finish(h, Raised("ORA-03113"))
            ELSE IF loc[h].i < Len(loc[h].terms)
            THEN /\ loc' = [loc EXCEPT ![h].matching = matching,
                                       ![h].returned = @ \cup Range(tables),
                                       ![h].seen = @ \cup {cache.gen},
                                       ![h].outcome = "value",
                                       ![h].i = @ + 1]
                 /\ UNCHANGED <<pc, ret>>
            ELSE /\ loc' = [loc EXCEPT ![h].matching = matching,
                                       ![h].returned = @ \cup Range(tables),
                                       ![h].seen = @ \cup {cache.gen},
                                       ![h].outcome = "value",
                                       ![h].total = Len(list),
                                       ![h].list = LimitedTables(list),
                                       ![h].i = 1]
                 /\ IF list = << >>
                    THEN Finish(h, Text("no_tables", << >>, << >>, 0, ""))
                    ELSE /\ pc' = [pc EXCEPT ![h] = "search_load"]
                         /\ ret' = ret
    /\ ctx' = Called(ctx)
    /\ UNCHANGED tool
    /\ LifeUnchanged
    /\ SnapUnchanged

\* search_tables_schema (lines 173-182): one get_schema_info call of the
\* loading loop, and the join after the last.
SearchLoadStep(h) ==
    /\ life = "serving"
    /\ pc[h] = "search_load"
    /\ \E raises \in BOOLEAN :
        LET table_info == GetSchemaInfo(cache, loc[h].list[loc[h].i])
            results    == loc[h].results \o SearchEntries(table_info)
        IN  IF raises
            THEN /\ loc' = [loc EXCEPT ![h].outcome = "raise"]
                 /\ Finish(h, Raised("ORA-03113"))
            ELSE /\ loc' = [loc EXCEPT ![h].results = results,
                                       ![h].i = @ + 1,
                                       ![h].seen = @ \cup {cache.gen},
                                       ![h].outcome =
                                           IF table_info = NoTable THEN "none" ELSE "value"]
                 /\ IF loc[h].i = Len(loc[h].list)
                    THEN Finish(h, Text(SearchHeaderTag(loc[h].total), << >>, results,
                                        loc[h].total, ""))
                    ELSE UNCHANGED <<pc, ret>>
    /\ ctx' = Called(ctx)
    /\ UNCHANGED tool
    /\ LifeUnchanged
    /\ SnapUnchanged

\* execute_query (lines 523-564).
ExecuteQuery(h) ==
    /\ CanInvoke(h)
    /\ \E outcome \in QueryOutcomes :
        /\ tool' = [tool EXCEPT ![h] = "execute_query"]
        /\ loc' = [loc EXCEPT ![h].arg = outcome, ![h].outcome = outcome.kind]
        /\ Finish(h, QueryText(outcome))
    /\ ctx' = Called(ctx)
    /\ LifeUnchanged
    /\ SnapUnchanged

\* The nine guarded tools (lines 184-521).
GuardedTool(h) ==
    /\ CanInvoke(h)
    /\ \E t \in GuardedTools, o \in GuardedOutcomes :
        /\ tool' = [tool EXCEPT ![h] = t]
        /\ loc' = [loc EXCEPT ![h].outcome = o]
        /\ Finish(h, GuardedText(t, o))
    /\ ctx' = Called(ctx)
    /\ LifeUnchanged
    /\ SnapUnchanged

(***************************************************************************)
(* rebuild_schema_cache (lines 78-93) over the Schema Manager's rebuild.   *)
(***************************************************************************)
Waiters == {w \in Handlers : pc[w] = "rebuild_wait"}

\* The call arrives and rebuild_cache() is entered: it takes the guard, or,
\* with a rebuild in flight, is rejected or waits for the one in flight.
RebuildStart(h) ==
    /\ CanInvoke(h)
    /\ tool' = [tool EXCEPT ![h] = "rebuild_schema_cache"]
    /\ ctx' = Called(ctx)
    /\ \/ /\ RebuildAdmitted(rebuilder)
          /\ gens < MaxGen
          /\ rebuilder' = h
          /\ gens' = gens + 1
          /\ building' = NoSnapshot
          /\ cache' = Published(cache, NoSnapshot)
          /\ pc' = [pc EXCEPT ![h] = "rebuild_tables"]
          /\ loc' = [loc EXCEPT ![h].v0 = cache.gen, ![h].builder = TRUE]
          /\ UNCHANGED <<ret, installed>>
       \/ /\ ~RebuildAdmitted(rebuilder)
          /\ loc' = [loc EXCEPT ![h].v0 = cache.gen, ![h].v1 = cache.gen,
                                ![h].ok = FALSE, ![h].outcome = "raise"]
          /\ Finish(h, RebuildText(FALSE, cache, "rebuild in progress"))
          /\ UNCHANGED <<cache, installed, building, rebuilder, gens>>
       \/ /\ ~RebuildAdmitted(rebuilder)
          /\ loc' = [loc EXCEPT ![h].v0 = cache.gen]
          /\ pc' = [pc EXCEPT ![h] = "rebuild_wait"]
          /\ UNCHANGED <<ret, cache, installed, building, rebuilder, gens>>
    /\ LifeUnchanged

\* One step of the extraction, then the save of the built snapshot.
RebuildStep(h) ==
    /\ life = "serving"
    /\ pc[h] \in BuildPcs
    /\ \/ /\ pc[h] = "rebuild_tables"
          /\ building' = ExtractTableList(gens, dbVersion)
          /\ pc' = [pc EXCEPT ![h] = "rebuild_columns"]
       \/ /\ pc[h] = "rebuild_columns"
          /\ building' = ExtractColumns(building)
          /\ pc' = [pc EXCEPT ![h] = "rebuild_constraints"]
       \/ /\ pc[h] = "rebuild_constraints"
          /\ building' = ExtractConstraints(building)
          /\ pc' = [pc EXCEPT ![h] = "rebuild_save"]
       \/ /\ pc[h] = "rebuild_save"
          /\ building' = building
          /\ pc' = [pc EXCEPT ![h] = "rebuild_install"]
    /\ cache' = Published(cache, building')
    /\ UNCHANGED <<ctx, installed, rebuilder, gens, tool, loc, ret>>
    /\ LifeUnchanged

\* The extraction or the save fails: rebuild_cache() raises, the snapshot
\* under construction is dropped, and the tool returns the failure message.
RebuildFail(h) ==
    /\ life = "serving"
    /\ pc[h] \in BuildPcs
    /\ cache' = Published(cache, building)
    /\ building' = NoSnapshot
    /\ rebuilder' = IF rebuilder = h THEN 0 ELSE rebuilder
    /\ loc' = [w \in Handlers |->
                 IF w = h THEN [loc[w] EXCEPT !.v1 = cache'.gen, !.ok = FALSE,
                                              !.outcome = "raise"]
                 ELSE IF w \in Waiters THEN [loc[w] EXCEPT !.v1 = cache'.gen, !.ok = FALSE]
                 ELSE loc[w]]
    /\ pc' = [w \in Handlers |->
                 IF w = h THEN "done"
                 ELSE IF w \in Waiters THEN "rebuild_woken" ELSE pc[w]]
    /\ ret' = [ret EXCEPT ![h] = RebuildText(FALSE, cache', "ORA-03113")]
    /\ UNCHANGED <<ctx, installed, gens, tool>>
    /\ LifeUnchanged

\* The final swap: the built snapshot becomes the live one, rebuild_cache()
\* returns, and the tool counts the tables of the live snapshot.
RebuildInstall(h) ==
    /\ life = "serving"
    /\ pc[h] = "rebuild_install"
    /\ cache' = building
    /\ installed' = installed \cup {[gen |-> building.gen, db |-> building.db]}
    /\ building' = NoSnapshot
    /\ rebuilder' = IF rebuilder = h THEN 0 ELSE rebuilder
    /\ loc' = [w \in Handlers |->
                 IF w = h THEN [loc[w] EXCEPT !.v1 = cache'.gen, !.ok = TRUE,
                                              !.outcome = "value"]
                 ELSE IF w \in Waiters THEN [loc[w] EXCEPT !.v1 = cache'.gen, !.ok = TRUE]
                 ELSE loc[w]]
    /\ pc' = [w \in Handlers |->
                 IF w = h THEN "done"
                 ELSE IF w \in Waiters THEN "rebuild_woken" ELSE pc[w]]
    /\ ret' = [ret EXCEPT ![h] = RebuildText(TRUE, cache', "")]
    /\ UNCHANGED <<ctx, gens, tool>>
    /\ LifeUnchanged

\* A call that waited for the rebuild in flight resumes with its outcome.
RebuildResume(h) ==
    /\ life = "serving"
    /\ pc[h] = "rebuild_woken"
    /\ loc' = [loc EXCEPT ![h].outcome = IF loc[h].ok THEN "value" ELSE "raise"]
    /\ Finish(h, RebuildText(loc[h].ok, cache, "ORA-03113"))
    /\ UNCHANGED <<ctx, tool>>
    /\ LifeUnchanged
    /\ SnapUnchanged

Next ==
    \/ LifespanEnter
    \/ LifespanInitialize
    \/ ServeEnd
    \/ LifespanClose
    \/ SchemaChange
    \/ \E h \in Handlers : GetTableSchema(h)
    \/ \E h \in Handlers : GetTablesSchemaStart(h)
    \/ \E h \in Handlers : GetTablesSchemaStep(h)
    \/ \E h \in Handlers : SearchStart(h)
    \/ \E h \in Handlers : SearchTermStep(h)
    \/ \E h \in Handlers : SearchLoadStep(h)
    \/ \E h \in Handlers : ExecuteQuery(h)
    \/ \E h \in Handlers : GuardedTool(h)
    \/ \E h \in Handlers : RebuildStart(h)
    \/ \E h \in Handlers : RebuildStep(h)
    \/ \E h \in Handlers : RebuildFail(h)
    \/ \E h \in Handlers : RebuildInstall(h)
    \/ \E h \in Handlers : RebuildResume(h)

Spec == Init /\ [][Next]_vars

(***************************************************************************)
(* Properties.                                                             *)
(***************************************************************************)
Names(body) == [i \in DOMAIN body |-> body[i].name]

NoDuplicates(q) == Cardinality(Range(q)) = Len(q)

Returned(h) == pc[h] = "done" /\ ret[h].kind = "text"

\* The installed snapshot of generation g.
SnapshotOf(g) == CHOOSE snap \in InstalledSnapshots : snap.gen = g

\* C1: once the DatabaseContext is constructed, every exit of the lifespan
\* (normal end, failed body, failed initialize) has called close() on it
\* exactly once, and nothing was called on the context after close(); close()
\* is never called more than once nor on a context that was not constructed.
C1_CloseOnEveryExit ==
    /\ ctx.closeCalls <= 1
    /\ ctx.closeCalls = 1 => ctx.constructed /\ life = "exited"
    /\ ~ctx.afterClose
    /\ (life = "exited" /\ ctx.constructed) => ctx.closeCalls = 1

\* C1 witness: initialize() failed, and the lifespan has exited with the
\* context closed.
C1_Witness ==
    /\ life = "exited"
    /\ ctx.constructed
    /\ ctx.initCalls = 1
    /\ gens = 0
    /\ ctx.closeCalls = 1

\* C2: the context is handed to the serving layer, and tools are served,
\* only with a connection string present and initialize() returned; without a
\* connection string nothing is constructed, initialized or closed and the
\* lifespan raises; a failed initialize() is called once, never serves a tool
\* and ends the lifespan with the failure.
C2_StartupFailuresFatal ==
    /\ (life = "serving" \/ ctx.served) =>
           connStr /\ ctx.constructed /\ ctx.initCalls = 1 /\ gens >= 1
    /\ ~connStr =>
           /\ ~ctx.constructed
           /\ ctx.initCalls = 0
           /\ ctx.closeCalls = 0
           /\ life \in {"start", "exited"}
           /\ life = "exited" => lifeOut = "raised"
    /\ ctx.initCalls <= 1
    /\ (ctx.initCalls = 1 /\ gens = 0) =>
           /\ life \in {"closing", "exited"}
           /\ ~ctx.served
           /\ lifeExc
           /\ life = "exited" => lifeOut = "raised"

\* C2 witness: initialize() failed and the lifespan ended by raising.
C2_Witness ==
    /\ life = "exited"
    /\ lifeOut = "raised"
    /\ ctx.initCalls = 1
    /\ gens = 0
    /\ ~ctx.served

\* C3: the tables a search reports, during the loading loop and in the
\* result, are without duplicates, at most 20, and each was returned by
\* search_tables for one of the terms.
C3_SearchUnion ==
    \A h \in Handlers :
        tool[h] = "search_tables_schema" =>
            /\ NoDuplicates(Names(loc[h].results))
            /\ Len(loc[h].results) <= TableLimit
            /\ Range(Names(loc[h].results)) \subseteq loc[h].returned
            /\ Returned(h) /\ ret[h].tag \in {"found", "found_first"} =>
                   /\ ret[h].body = loc[h].results
                   /\ Len(ret[h].body) <= TableLimit

\* C3 witness: a search with two terms whose matches overlap and exceed 20
\* has reported 20 tables.
C3_Witness ==
    \E h \in Handlers :
        /\ Returned(h)
        /\ ret[h].tag = "found_first"
        /\ Len(loc[h].terms) = 2
        /\ Len(ret[h].body) = TableLimit
        /\ Cardinality(loc[h].returned) > TableLimit

\* C4: a search that ran against one snapshot reports the matching tables in
\* that snapshot's order, keeping the first 20 of them in that order.
C4_InsertionOrder ==
    \A h \in Handlers :
        (/\ tool[h] = "search_tables_schema"
         /\ Returned(h)
         /\ ret[h].tag \in {"found", "found_first"}
         /\ \E g \in 1..MaxGen : loc[h].seen = {g}) =>
            LET g == CHOOSE x \in 1..MaxGen : loc[h].seen = {x}
            IN  Names(ret[h].body) =
                    Take(InOrder(TableNames(SnapshotOf(g)), loc[h].returned), TableLimit)

\* A table record of a result is whole when all its fields come from one
\* installed snapshot and it is that snapshot's record.
Whole(e) ==
    e.tag = "schema" =>
        \E snap \in InstalledSnapshots :
            \E i \in DOMAIN snap.tables : FormatSchema(snap.tables[i]) = e

\* C5: under every interleaving with rebuilds, each table record a read
\* tool returns or has collected is whole, and the count a rebuild reports is
\* the number of tables of an installed snapshot.
C5_WholeSnapshots ==
    \A h \in Handlers :
        /\ \A i \in DOMAIN loc[h].results : Whole(loc[h].results[i])
        /\ tool[h] \in {"get_table_schema", "get_tables_schema", "search_tables_schema"} =>
               \A i \in DOMAIN ret[h].body : Whole(ret[h].body[i])
        /\ ret[h].tag = "rebuild_ok" =>
               \E snap \in InstalledSnapshots : ret[h].n = Len(snap.tables)

\* C5 witness: a get_tables_schema call that arrived while a rebuild was in
\* flight has read from the old and from the new snapshot, and the rebuild
\* has reported its count.
C5_Witness ==
    /\ tool[1] = "rebuild_schema_cache"
    /\ ret[1].tag = "rebuild_ok"
    /\ tool[2] = "get_tables_schema"
    /\ Returned(2)
    /\ loc[2].seen = {1, 2}
    /\ \E i \in DOMAIN ret[2].body : ret[2].body[i].tag = "schema"

\* C6: at most one rebuild is extracting, saving or installing at any
\* moment, and it is the one holding the guard.
C6_OneRebuildAtATime ==
    /\ Cardinality({h \in Handlers : pc[h] \in BuildPcs \cup {"rebuild_install"}}) <= 1
    /\ \A h \in Handlers : pc[h] \in BuildPcs \cup {"rebuild_install"} => rebuilder = h
    /\ \A h \in Handlers : pc[h] = "rebuild_wait" => rebuilder \notin {0, h}

\* C6 witness: a second rebuild was requested while one was extracting, and
\* waits for it.
C6_Witness ==
    \E h, w \in Handlers :
        /\ pc[h] = "rebuild_columns"
        /\ pc[w] = "rebuild_wait"

C8_QueryNeverRaises ==
    \A h \in Handlers :
        (tool[h] = "execute_query" /\ pc[h] = "done") =>
            /\ ret[h].kind = "text"
            /\ (loc[h].arg.kind = "value" /\ loc[h].arg.value.status = "error") =>
                   /\ ret[h].tag = "query_error"
                   /\ ret[h].msg = loc[h].arg.value.error
                   /\ ret[h].body = << >>
                   /\ ret[h].n = 0

\* C8 witness: the engine answered with status error and the tool returned
\* the error message.
C8_Witness ==
    \E h \in Handlers :
        /\ tool[h] = "execute_query"
        /\ pc[h] = "done"
        /\ loc[h].arg.kind = "value"
        /\ loc[h].arg.value.status = "error"
        /\ ret[h].msg = "ORA-00942"

\* C9: get_table_schema answers None with the not-found message;
\* get_tables_schema collects one entry per name handled so far, in request
\* order, a not-found entry for an absent table and the schema otherwise, and
\* raises only when a lookup raised.
C9_AbsentIsNotFound ==
    \A h \in Handlers :
        /\ (tool[h] = "get_table_schema" /\ pc[h] = "done" /\ loc[h].outcome = "none") =>
               ret[h] = Text("not_found", loc[h].arg, <<NotFoundEntry(loc[h].arg)>>, 0, "")
        /\ tool[h] = "get_tables_schema" =>
               /\ ret[h].kind = "raise" => loc[h].outcome = "raise"
               /\ Len(loc[h].results) = loc[h].i - 1
               /\ Returned(h) =>
                      /\ ret[h].body = loc[h].results
                      /\ Len(ret[h].body) = Len(loc[h].arg)
               /\ \A i \in DOMAIN loc[h].results :
                      LET e == loc[h].results[i]
                          name == loc[h].arg[i]
                      IN  /\ \/ e = NotFoundEntry(name)
                             \/ e.tag = "schema" /\ e.name = UpperStr(name)
                          /\ \A g \in 1..MaxGen :
                                 loc[h].seen = {g} =>
                                     (e.tag = "not_found" <=>
                                          UpperStr(name) \notin AllTableNames(SnapshotOf(g)))

\* C9 witness: three names were requested, the second is absent and the
\* third was still looked up.
C9_Witness ==
    \E h \in Handlers :
        /\ tool[h] = "get_tables_schema"
        /\ Returned(h)
        /\ Len(ret[h].body) = 3
        /\ ret[h].body[2].tag = "not_found"
        /\ ret[h].body[3].tag = "schema"

\* C10: no tool invocation ends with an exception leaving the tool.
C10_NoToolRaises ==
    \A h \in Handlers : ret[h].kind # "raise"

\* A search that has returned its header and the schemas that follow it.
SearchFound(h) ==
    /\ tool[h] = "search_tables_schema"
    /\ Returned(h)
    /\ ret[h].tag \in {"found", "found_first"}

\* The tables of a snapshot whose name matches at least one of the terms.
MatchingAny(snap, terms) ==
    {n \in AllTableNames(snap) :
        \E i \in DOMAIN terms : Contains(n, UpperStr(terms[i]))}

\* C11: a search that ran against one snapshot reports in its header the
\* number of distinct tables of that snapshot matching any of the terms, and
\* gives the "Returning the first 20" notice exactly when that number
\* exceeds 20.
C11_HeaderCountsAllMatches ==
    \A h \in Handlers :
        (SearchFound(h) /\ \E g \in 1..MaxGen : loc[h].seen = {g}) =>
            LET g == CHOOSE x \in 1..MaxGen : loc[h].seen = {x}
                all == MatchingAny(SnapshotOf(g), loc[h].terms)
            IN  /\ ret[h].n = Cardinality(all)
                /\ ret[h].tag = "found_first" <=> Cardinality(all) > TableLimit

\* C12: under every interleaving with rebuilds, the schemas that follow the
\* header of a search are min(N, 20) in number, N being the header's count,
\* and every table the search step kept has its schema among them.
C12_HeaderBodyAgree ==
    \A h \in Handlers :
        SearchFound(h) =>
            /\ Len(ret[h].body) =
                   (IF ret[h].n < TableLimit THEN ret[h].n ELSE TableLimit)
            /\ Range(loc[h].list) \subseteq Range(Names(ret[h].body))

====
